---------------------------- MODULE Spec2Model ----------------------------
(***************************************************************************)
(* Model of the naga module analyzer (src/proc/analyzer.rs): control-flow  *)
(* uniformity, global-variable use masks, texture/sampler pairs,           *)
(* expression reference counts and exit flags.                             *)
(*                                                                         *)
(* Handles are the positive integers 1..Len(arena): a Handle<T> of the     *)
(* source is a non-zero index, and Option<Handle<T>>::None is 0.           *)
(* Operations of the source that take `&mut self` and return a value are   *)
(* operators that take the FunctionInfo and return a record holding the    *)
(* updated FunctionInfo (`self`) next to the returned value.               *)
(***************************************************************************)
EXTENDS Integers, Sequences, FiniteSets, TLC

\* Option::None of an Option<Handle<_>>
None == 0

(***************************************************************************)
(* Uniformity                                                              *)
(***************************************************************************)
\* Uniformity::default()
Uniformity_default == [non_uniform_result |-> None, require_uniform |-> None]

\* Option::or
OptionOr(a, b) == IF a # None THEN a ELSE b

\* a join that takes each field from the right operand when present
BitOr_right_biased(self, other) ==
    [non_uniform_result |-> OptionOr(other.non_uniform_result, self.non_uniform_result),
     require_uniform |-> OptionOr(other.require_uniform, self.require_uniform)]

\* impl ops::BitOr for Uniformity
BitOr(self, other) ==
    [non_uniform_result |-> OptionOr(self.non_uniform_result, other.non_uniform_result),
     require_uniform |-> OptionOr(self.require_uniform, other.require_uniform)]

\* Uniformity::non_uniform_result(expr)
non_uniform_result(expr) == [non_uniform_result |-> expr, require_uniform |-> None]

\* Uniformity::require_uniform(expr)
require_uniform(expr) == [non_uniform_result |-> None, require_uniform |-> expr]

(***************************************************************************)
(* UniformityDisruptor, as Option<UniformityDisruptor>                     *)
(***************************************************************************)
NoDisruptor == [tag |-> "None", expr |-> None]
DisruptorExpression(h) == [tag |-> "Expression", expr |-> h]
DisruptorReturn == [tag |-> "Return", expr |-> None]
DisruptorKill == [tag |-> "Kill", expr |-> None]

\* Option::or on Option<UniformityDisruptor>
DisruptorOr(a, b) == IF a.tag # "None" THEN a ELSE b

\* a disruptor() that reads the wrong field of the Uniformity
Uniformity_disruptor_of_requirement(self) ==
    IF self.require_uniform # None
    THEN DisruptorExpression(self.require_uniform)
    ELSE NoDisruptor

\* Uniformity::disruptor(&self)
Uniformity_disruptor(self) ==
    IF self.non_uniform_result # None
    THEN DisruptorExpression(self.non_uniform_result)
    ELSE NoDisruptor

(***************************************************************************)
(* ExitFlags and GlobalUse: bit sets, as sets of flag names                *)
(***************************************************************************)
MAY_RETURN == "MAY_RETURN"
MAY_KILL == "MAY_KILL"
READ == "READ"
WRITE == "WRITE"
QUERY == "QUERY"

\* a from_exit that tests MAY_KILL first
from_exit_kill_first(flags) ==
    IF MAY_KILL \in flags THEN DisruptorKill
    ELSE IF MAY_RETURN \in flags THEN DisruptorReturn
    ELSE NoDisruptor

\* UniformityDisruptor::from_exit
from_exit(flags) ==
    IF MAY_RETURN \in flags THEN DisruptorReturn
    ELSE IF MAY_KILL \in flags THEN DisruptorKill
    ELSE NoDisruptor

(***************************************************************************)
(* Results: Ok, Err(AnalysisError) and a panic (an index out of bounds)    *)
(***************************************************************************)
Ok == [tag |-> "Ok"]
ExpectedGlobalVariable(expression) ==
    [tag |-> "ExpectedGlobalVariable", expression |-> expression]
NonUniformControlFlow(expr, cause) ==
    [tag |-> "NonUniformControlFlow", expr |-> expr, cause |-> cause]
Panic == [tag |-> "Panic"]

(***************************************************************************)
(* `let v = r; K(v)`: r is evaluated once, and what follows uses its value *)
(***************************************************************************)
The(S) == CHOOSE v \in S : TRUE
Then(r, K(_)) == The({K(v) : v \in {r}})

(***************************************************************************)
(* ExpressionInfo and FunctionInfo                                         *)
(***************************************************************************)
\* ExpressionInfo::default()
ExpressionInfo_default ==
    [uniformity |-> Uniformity_default, ref_count |-> 0, assignable_global |-> None]

\* FunctionInfo::global_variable_count
global_variable_count(self) == Len(self.global_uses)

\* FunctionInfo::expression_count
expression_count(self) == Len(self.expressions)

\* FunctionInfo::dominates_global_use: the zip stops at the shorter slice
dominates_global_use(self, other) ==
    \A i \in 1..Len(self.global_uses) :
        i <= Len(other.global_uses) => other.global_uses[i] \subseteq self.global_uses[i]

\* an add_ref_impl that counts only the references that reach a global
add_ref_impl_counting_globals(self, handle, global_use) ==
    LET info == self.expressions[handle]
    IN  [self |-> IF info.assignable_global # None
                  THEN [self EXCEPT !.expressions[handle].ref_count = info.ref_count + 1,
                                    !.global_uses[info.assignable_global] =
                                        @ \cup {global_use}]
                  ELSE self,
         ret |-> info.uniformity]

\* FunctionInfo::add_ref_impl
add_ref_impl(self, handle, global_use) ==
    LET info == self.expressions[handle]
        counted == [self EXCEPT !.expressions[handle].ref_count = info.ref_count + 1]
    IN  [self |-> IF info.assignable_global # None
                  THEN [counted EXCEPT !.global_uses[info.assignable_global] =
                                           @ \cup {global_use}]
                  ELSE counted,
         ret |-> info.uniformity]

\* an add_ref that records a QUERY
add_ref_querying(self, handle) == add_ref_impl(self, handle, QUERY)

\* FunctionInfo::add_ref
add_ref(self, handle) == add_ref_impl(self, handle, READ)

\* `match h { Some(h) => self.add_ref(h), None => Uniformity::default() }`
add_ref_option(self, handle) ==
    IF handle # None THEN add_ref(self, handle)
    ELSE [self |-> self, ret |-> Uniformity_default]

\* an add_assignable_ref that leaves the caller's assignable_global alone
add_assignable_ref_no_carry(self, handle) ==
    LET info == self.expressions[handle]
    IN  [self |-> [self EXCEPT !.expressions[handle].ref_count = info.ref_count + 1],
         carry |-> None,
         ret |-> info.uniformity]

\* an add_assignable_ref that also records a READ of the global, as add_ref does
add_assignable_ref_reading(self, handle) ==
    [self |-> add_ref(self, handle).self,
     carry |-> self.expressions[handle].assignable_global,
     ret |-> self.expressions[handle].uniformity]

\* FunctionInfo::add_assignable_ref; `carry` is the value left in the caller's
\* assignable_global (the caller passes None, so unreachable!() is not reached)
add_assignable_ref(self, handle) ==
    LET info == self.expressions[handle]
    IN  [self |-> [self EXCEPT !.expressions[handle].ref_count = info.ref_count + 1],
         carry |-> info.assignable_global,
         ret |-> info.uniformity]

\* the zip of process_call: elementwise OR over the common prefix
ZipOr(mine, other) ==
    [i \in 1..Len(mine) |-> IF i <= Len(other) THEN mine[i] \cup other[i] ELSE mine[i]]

\* a process_call that overwrites global_uses with the callee's
process_call_overwriting(self, info) ==
    [self |-> [self EXCEPT !.sampling_set = @ \cup info.sampling_set,
                           !.global_uses = info.global_uses],
     ret |-> info.uniformity]

\* FunctionInfo::process_call
process_call(self, info) ==
    [self |-> [self EXCEPT !.sampling_set = @ \cup info.sampling_set,
                           !.global_uses = ZipOr(@, info.global_uses)],
     ret |-> info.uniformity]


(***************************************************************************)
(* Expression pass                                                         *)
(***************************************************************************)
\* a classification that looks at the storage class before the binding
GlobalVariable_uniform_class_first(var) ==
    CASE var.class = "Input" -> var.interpolation = "Flat"
      [] var.class \in {"Output", "Function", "Private", "WorkGroup"} -> FALSE
      [] var.class \in {"Uniform", "PushConstant"} -> TRUE
      [] var.class \in {"Handle", "Storage"} -> "STORE" \notin var.storage_access

\* process_expression, Expression::GlobalVariable: `let uniform = ...`
GlobalVariable_uniform(var) ==
    IF var.binding.tag = "BuiltIn"
    THEN var.binding.built_in \in {"FrontFacing", "WorkGroupId", "WorkGroupSize"}
    ELSE CASE var.class = "Input" -> var.interpolation = "Flat"
           [] var.class \in {"Output", "Function", "Private", "WorkGroup"} -> FALSE
           [] var.class \in {"Uniform", "PushConstant"} -> TRUE
           [] var.class \in {"Handle", "Storage"} -> "STORE" \notin var.storage_access

\* process_expression, Expression::ImageSample: `let level_flags = match level`
level_flags(self, handle, level) ==
    CASE level.tag = "Auto" -> [self |-> self, ret |-> require_uniform(handle)]
      [] level.tag = "Zero" -> [self |-> self, ret |-> Uniformity_default]
      [] level.tag \in {"Exact", "Bias"} -> add_ref(self, level.x)
      [] level.tag = "Gradient" ->
            Then(add_ref(self, level.x), LAMBDA x :
            Then(add_ref(x.self, level.y), LAMBDA y :
            [self |-> y.self, ret |-> BitOr(x.ret, y.ret)]))

\* process_expression, Expression::Compose: the accumulation over components
RECURSIVE compose_accum(_, _, _, _)
compose_accum(self, components, i, accum) ==
    IF i > Len(components) THEN [self |-> self, ret |-> accum]
    ELSE Then(add_ref(self, components[i]), LAMBDA r :
         compose_accum(r.self, components, i + 1, BitOr(accum, r.ret)))

\* a uniformity computed without an early return and without an assignable
\* global
Computed(r) ==
    Then(r, LAMBDA v : [self |-> v.self, res |-> Ok, uniformity |-> v.ret, ag |-> None])

\* `return Err(..)` (or a panic) out of process_expression
Returned(self, res) ==
    [self |-> self, res |-> res, uniformity |-> Uniformity_default, ag |-> None]

\* an ImageSample that counts the references to its image and its sampler
\* before it looks at what they are
ImageSample_match_counting_first(self, handle, e, expression_arena) ==
    Then(expression_arena[e.image], LAMBDA image :
    Then(expression_arena[e.sampler], LAMBDA sampler :
    Then(add_ref(self, e.image), LAMBDA img :
    Then(add_ref(img.self, e.sampler), LAMBDA smp :
    IF image.kind # "GlobalVariable"
    THEN Returned(smp.self, ExpectedGlobalVariable(image))
    ELSE IF sampler.kind # "GlobalVariable"
    THEN Returned(smp.self, ExpectedGlobalVariable(sampler))
    ELSE
    Then([smp.self EXCEPT !.sampling_set = @ \cup
              {[image |-> image.global, sampler |-> sampler.global]}], LAMBDA s0 :
    Then(add_ref_option(s0, e.array_index), LAMBDA array :
    Then(level_flags(array.self, handle, e.level), LAMBDA level :
    Then(add_ref_option(level.self, e.depth_ref), LAMBDA dref :
    Then(add_ref(dref.self, e.coordinate), LAMBDA coord :
    [self |-> coord.self, res |-> Ok,
     uniformity |-> BitOr(BitOr(BitOr(BitOr(BitOr(img.ret, smp.ret), coord.ret),
                                      array.ret), level.ret), dref.ret),
     ag |-> None])))))))))

\* process_expression, Expression::ImageSample
ImageSample_match(self, handle, e, expression_arena) ==
    Then(expression_arena[e.image], LAMBDA image :
    Then(expression_arena[e.sampler], LAMBDA sampler :
    IF image.kind # "GlobalVariable"
    THEN Returned(self, ExpectedGlobalVariable(image))
    ELSE IF sampler.kind # "GlobalVariable"
    THEN Returned(self, ExpectedGlobalVariable(sampler))
    ELSE
    Then([self EXCEPT !.sampling_set = @ \cup
              {[image |-> image.global, sampler |-> sampler.global]}], LAMBDA s0 :
    Then(add_ref_option(s0, e.array_index), LAMBDA array :
    Then(level_flags(array.self, handle, e.level), LAMBDA level :
    Then(add_ref_option(level.self, e.depth_ref), LAMBDA dref :
    Then(add_ref(dref.self, e.image), LAMBDA img :
    Then(add_ref(img.self, e.sampler), LAMBDA smp :
    Then(add_ref(smp.self, e.coordinate), LAMBDA coord :
    [self |-> coord.self, res |-> Ok,
     uniformity |-> BitOr(BitOr(BitOr(BitOr(BitOr(img.ret, smp.ret), coord.ret),
                                      array.ret), level.ret), dref.ret),
     ag |-> None])))))))))

\* process_expression: the `match expression_arena[handle]`, which yields the
\* uniformity and the assignable global (`ag`), or returns early (`res`)
expression_match(self, handle, expression_arena, global_var_arena, other_functions) ==
    LET e == expression_arena[handle]
    IN  CASE e.kind = "Access" ->
               Then(add_assignable_ref(self, e.base), LAMBDA b :
               Then(add_ref(b.self, e.index), LAMBDA i :
               [self |-> i.self, res |-> Ok,
                uniformity |-> BitOr(b.ret, i.ret), ag |-> b.carry]))
          [] e.kind = "AccessIndex" ->
               Then(add_assignable_ref(self, e.base), LAMBDA b :
               [self |-> b.self, res |-> Ok, uniformity |-> b.ret, ag |-> b.carry])
          [] e.kind = "Constant" -> Computed([self |-> self, ret |-> Uniformity_default])
          [] e.kind = "Compose" ->
               Computed(compose_accum(self, e.components, 1, Uniformity_default))
          [] e.kind = "FunctionArgument" ->
               Computed([self |-> self, ret |-> non_uniform_result(handle)])
          [] e.kind = "GlobalVariable" ->
               [self |-> self, res |-> Ok,
                uniformity |-> IF GlobalVariable_uniform(global_var_arena[e.global])
                               THEN Uniformity_default
                               ELSE non_uniform_result(handle),
                ag |-> e.global]
          [] e.kind = "LocalVariable" ->
               Computed([self |-> self, ret |-> non_uniform_result(handle)])
          [] e.kind = "Load" -> Computed(add_ref(self, e.pointer))
          [] e.kind = "ImageSample" -> ImageSample_match(self, handle, e, expression_arena)
          [] e.kind = "ImageLoad" ->
               Then(add_ref_option(self, e.array_index), LAMBDA array :
               Then(add_ref_option(array.self, e.index), LAMBDA index :
               Then(add_ref(index.self, e.image), LAMBDA img :
               Then(add_ref(img.self, e.coordinate), LAMBDA coord :
               Computed([self |-> coord.self,
                         ret |-> BitOr(BitOr(BitOr(img.ret, coord.ret), array.ret),
                                       index.ret)])))))
          [] e.kind = "ImageQuery" ->
               Then(IF e.query.tag = "Size" THEN add_ref_option(self, e.query.level)
                    ELSE [self |-> self, ret |-> Uniformity_default], LAMBDA query :
               Then(add_ref_impl(query.self, e.image, QUERY), LAMBDA img :
               Computed([self |-> img.self, ret |-> BitOr(img.ret, query.ret)])))
          [] e.kind \in {"Unary", "As"} -> Computed(add_ref(self, e.expr))
          [] e.kind = "Binary" ->
               Then(add_ref(self, e.left), LAMBDA l :
               Then(add_ref(l.self, e.right), LAMBDA r :
               Computed([self |-> r.self, ret |-> BitOr(l.ret, r.ret)])))
          [] e.kind = "Select" ->
               Then(add_ref(self, e.condition), LAMBDA c :
               Then(add_ref(c.self, e.accept), LAMBDA a :
               Then(add_ref(a.self, e.reject), LAMBDA r :
               Computed([self |-> r.self, ret |-> BitOr(BitOr(c.ret, a.ret), r.ret)]))))
          [] e.kind = "Derivative" ->
               Then(add_ref(self, e.expr), LAMBDA r :
               Computed([self |-> r.self, ret |-> BitOr(require_uniform(handle), r.ret)]))
          [] e.kind = "Relational" -> Computed(add_ref(self, e.argument))
          [] e.kind = "Math" ->
               Then(add_ref_option(self, e.arg1), LAMBDA a1 :
               Then(add_ref_option(a1.self, e.arg2), LAMBDA a2 :
               Then(add_ref(a2.self, e.arg), LAMBDA a :
               Computed([self |-> a.self, ret |-> BitOr(BitOr(a.ret, a1.ret), a2.ret)]))))
          [] e.kind = "Call" ->
               IF e.function > Len(other_functions) THEN Returned(self, Panic)
               ELSE Computed(process_call(self, other_functions[e.function]))
          [] e.kind = "ArrayLength" -> Computed(add_ref_impl(self, e.expr, QUERY))

\* FunctionInfo::process_expression
process_expression(self, handle, expression_arena, global_var_arena, other_functions) ==
    Then(expression_match(self, handle, expression_arena, global_var_arena,
                          other_functions), LAMBDA m :
    IF m.res.tag # "Ok" THEN [self |-> m.self, res |-> m.res]
    ELSE [self |-> [m.self EXCEPT !.expressions[handle] =
                        [uniformity |-> m.uniformity,
                         ref_count |-> 0,
                         assignable_global |-> m.ag]],
          res |-> Ok])

(***************************************************************************)
(* Block pass                                                              *)
(***************************************************************************)
\* ExitFlags::empty()
ExitFlags_empty == {}

\* what a failed (or panicked) step returns: the `?` and `return Err(..)` paths
Failed(self, res) ==
    [self |-> self, res |-> res, uniformity |-> Uniformity_default, exit |-> ExitFlags_empty]

\* process_block, Statement::Call: the loop over `arguments`
RECURSIVE call_arguments(_, _, _, _)
call_arguments(self, arguments, i, uniformity) ==
    IF i > Len(arguments) THEN [self |-> self, ret |-> uniformity]
    ELSE Then(add_ref(self, arguments[i]), LAMBDA r :
         call_arguments(r.self, arguments, i + 1, BitOr(uniformity, r.ret)))

RECURSIVE process_block(_, _, _, _)

\* a loop over `cases` that leaves the case disruptor alone on a fall-through
RECURSIVE switch_cases_dropping_exit(_, _, _, _, _, _, _, _)
switch_cases_dropping_exit(self, cases, i, other_functions, branch_disruptor, case_disruptor, uniformity, exit) ==
    IF i > Len(cases)
    THEN [self |-> self, res |-> Ok, uniformity |-> uniformity, exit |-> exit]
    ELSE Then(process_block(self, cases[i].body, other_functions, case_disruptor),
              LAMBDA c :
         IF c.res.tag # "Ok"
         THEN [self |-> c.self, res |-> c.res, uniformity |-> Uniformity_default,
               exit |-> {}]
         ELSE switch_cases_dropping_exit(c.self, cases, i + 1, other_functions,
                                         branch_disruptor,
                                         IF cases[i].fall_through THEN case_disruptor
                                         ELSE branch_disruptor,
                                         BitOr(uniformity, c.uniformity), exit \cup c.exit))

\* process_block, Statement::Switch: the loop over `cases`
RECURSIVE switch_cases(_, _, _, _, _, _, _, _)
switch_cases(self, cases, i, other_functions, branch_disruptor, case_disruptor, uniformity, exit) ==
    IF i > Len(cases)
    THEN [self |-> self, res |-> Ok, uniformity |-> uniformity, exit |-> exit]
    ELSE Then(process_block(self, cases[i].body, other_functions, case_disruptor),
              LAMBDA c :
         IF c.res.tag # "Ok" THEN Failed(c.self, c.res)
         ELSE switch_cases(c.self, cases, i + 1, other_functions, branch_disruptor,
                           IF cases[i].fall_through
                           THEN DisruptorOr(case_disruptor, from_exit(c.exit))
                           ELSE branch_disruptor,
                           BitOr(uniformity, c.uniformity), exit \cup c.exit))

\* a Call that may kill whatever the callee
Call_exit_always_kill(info) == {MAY_KILL}

\* process_block, Statement::Call: `let exit = if info.may_kill { .. } else { .. }`
Call_exit(info) == IF info.may_kill THEN {MAY_KILL} ELSE ExitFlags_empty

\* (cur_uniformity, cur_exit) of a statement that did not return early
Flags(self, uniformity, exit) ==
    [self |-> self, res |-> Ok, uniformity |-> uniformity, exit |-> exit]

\* process_block: the `match *statement`, which yields (cur_uniformity, cur_exit)
statement_match(self, statement, other_functions, disruptor) ==
    LET S == statement
    IN  CASE S.kind \in {"Emit", "Break", "Continue"} ->
               Flags(self, Uniformity_default, ExitFlags_empty)
          [] S.kind = "Kill" -> Flags(self, Uniformity_default, {MAY_KILL})
          [] S.kind = "Block" -> process_block(self, S.block, other_functions, disruptor)
          [] S.kind = "If" ->
               Then(add_ref(self, S.condition), LAMBDA condition :
               IF condition.ret.require_uniform # None /\ disruptor.tag # "None"
               THEN Failed(condition.self,
                           NonUniformControlFlow(condition.ret.require_uniform, disruptor))
               ELSE
               Then(DisruptorOr(disruptor, Uniformity_disruptor(condition.ret)),
                    LAMBDA branch_disruptor :
               Then(process_block(condition.self, S.accept, other_functions,
                                  branch_disruptor), LAMBDA accept :
               IF accept.res.tag # "Ok" THEN Failed(accept.self, accept.res)
               ELSE
               Then(process_block(accept.self, S.reject, other_functions,
                                  branch_disruptor), LAMBDA reject :
               IF reject.res.tag # "Ok" THEN Failed(reject.self, reject.res)
               ELSE Flags(reject.self,
                          BitOr(BitOr(condition.ret, accept.uniformity),
                                reject.uniformity),
                          accept.exit \cup reject.exit)))))
          [] S.kind = "Switch" ->
               Then(add_ref(self, S.selector), LAMBDA selector :
               Then(DisruptorOr(disruptor, Uniformity_disruptor(selector.ret)),
                    LAMBDA branch_disruptor :
               Then(switch_cases(selector.self, S.cases, 1, other_functions,
                                 branch_disruptor, disruptor, selector.ret,
                                 ExitFlags_empty), LAMBDA cases :
               IF cases.res.tag # "Ok" THEN Failed(cases.self, cases.res)
               ELSE
               Then(process_block(cases.self, S.default, other_functions,
                                  branch_disruptor), LAMBDA default :
               IF default.res.tag # "Ok" THEN Failed(default.self, default.res)
               ELSE Flags(default.self, BitOr(cases.uniformity, default.uniformity),
                          cases.exit \cup default.exit)))))
          [] S.kind = "Loop" ->
               Then(process_block(self, S.body, other_functions, disruptor), LAMBDA body :
               IF body.res.tag # "Ok" THEN Failed(body.self, body.res)
               ELSE
               Then(process_block(body.self, S.continuing, other_functions,
                                  DisruptorOr(disruptor, from_exit(body.exit))),
                    LAMBDA continuing :
               IF continuing.res.tag # "Ok" THEN Failed(continuing.self, continuing.res)
               ELSE Flags(continuing.self,
                          BitOr(body.uniformity, continuing.uniformity),
                          body.exit \cup continuing.exit)))
          [] S.kind = "Return" ->
               Then(add_ref_option(self, S.value), LAMBDA r :
               Flags(r.self, r.ret, {MAY_RETURN}))
          [] S.kind = "Store" ->
               Then(add_ref_impl(self, S.pointer, WRITE), LAMBDA pointer :
               Then(add_ref(pointer.self, S.value), LAMBDA val :
               Flags(val.self, BitOr(pointer.ret, val.ret), ExitFlags_empty)))
          [] S.kind = "ImageStore" ->
               Then(add_ref_option(self, S.array_index), LAMBDA array :
               Then(add_ref_impl(array.self, S.image, WRITE), LAMBDA image :
               Then(add_ref(image.self, S.coordinate), LAMBDA coordinate :
               Then(add_ref(coordinate.self, S.value), LAMBDA val :
               Flags(val.self,
                     BitOr(BitOr(BitOr(array.ret, image.ret), coordinate.ret), val.ret),
                     ExitFlags_empty)))))
          [] S.kind = "Call" ->
               IF S.function > Len(other_functions) THEN Failed(self, Panic)
               ELSE
               Then(other_functions[S.function], LAMBDA info :
               Then(process_call(self, info), LAMBDA call :
               Then(call_arguments(call.self, S.arguments, 1, call.ret), LAMBDA arguments :
               Then(add_ref_option(arguments.self, S.result), LAMBDA result :
               Flags(result.self, BitOr(arguments.ret, result.ret), Call_exit(info))))))

\* the check of a statement's flags against a disruptor, and the update of the
\* locals: `before` is checked, `after` is kept
Checked(cur, locals, before, after) ==
    IF cur.res.tag # "Ok"
    THEN [self |-> cur.self, res |-> cur.res, locals |-> locals]
    ELSE IF cur.uniformity.require_uniform # None /\ before.tag # "None"
    THEN [self |-> cur.self,
          res |-> NonUniformControlFlow(cur.uniformity.require_uniform, before),
          locals |-> locals]
    ELSE [self |-> cur.self, res |-> Ok,
          locals |-> [disruptor |-> after,
                      block_uniformity |-> BitOr(locals.block_uniformity, cur.uniformity),
                      block_exit |-> locals.block_exit \cup cur.exit]]

\* an iteration that updates the disruptor before it checks the statement
block_iteration_update_first(self, statement, other_functions, locals) ==
    Then(statement_match(self, statement, other_functions, locals.disruptor), LAMBDA cur :
    Then(DisruptorOr(locals.disruptor, from_exit(cur.exit)), LAMBDA after :
    Checked(cur, locals, after, after)))

\* process_block: one iteration of `for statement in statements`; `locals` holds
\* disruptor, block_uniformity and block_exit
block_iteration(self, statement, other_functions, locals) ==
    Then(statement_match(self, statement, other_functions, locals.disruptor), LAMBDA cur :
    Then(DisruptorOr(locals.disruptor, from_exit(cur.exit)), LAMBDA after :
    Checked(cur, locals, locals.disruptor, after)))

\* process_block: the locals at the start of the loop
block_locals(disruptor) ==
    [disruptor |-> disruptor,
     block_uniformity |-> Uniformity_default,
     block_exit |-> ExitFlags_empty]

\* process_block: `for statement in statements { .. }` from statement i on
RECURSIVE block_loop(_, _, _, _, _)
block_loop(self, statements, i, other_functions, locals) ==
    IF i > Len(statements)
    THEN [self |-> self, res |-> Ok,
          uniformity |-> locals.block_uniformity, exit |-> locals.block_exit]
    ELSE Then(block_iteration(self, statements[i], other_functions, locals), LAMBDA it :
         IF it.res.tag # "Ok" THEN Failed(it.self, it.res)
         ELSE block_loop(it.self, statements, i + 1, other_functions, it.locals))

\* FunctionInfo::process_block
process_block(self, statements, other_functions, disruptor) ==
    block_loop(self, statements, 1, other_functions, block_locals(disruptor))

(***************************************************************************)
(* Analysis::new as a state machine                                        *)
(*                                                                         *)
(* module        the crate::Module under analysis (never changes)          *)
(* functions     this.functions                                            *)
(* entry_points  this.entry_points                                         *)
(* info          the FunctionInfo that process_function is building        *)
(* pc            where Analysis::new stands                                *)
(* handle        the next expression of the expression pass                *)
(* cursor        the next statement of the function body                   *)
(* locals        disruptor, block_uniformity and block_exit of the         *)
(*               process_block call on the function body                   *)
(* result        what Analysis::new returned ("Running" until it returns)  *)
(***************************************************************************)
VARIABLES module, functions, entry_points, info, pc, handle, cursor, locals, result

vars == <<module, functions, entry_points, info, pc, handle, cursor, locals, result>>

Running == [tag |-> "Running"]

\* the functions in processing order: module.functions, then the entry points
Processed == Len(functions) + Len(entry_points)
Current == Processed + 1
IsEntryPoint(k) == k > Len(module.functions)
FunctionAt(k) ==
    IF IsEntryPoint(k) THEN module.entry_points[k - Len(module.functions)]
    ELSE module.functions[k]
fun == FunctionAt(Current)

\* an allocation that sizes global_uses by the expression arena
FunctionInfo_new_by_expressions(function, global_var_arena) ==
    [uniformity |-> Uniformity_default,
     may_kill |-> FALSE,
     sampling_set |-> {},
     global_uses |-> [i \in 1..Len(function.expressions) |-> {}],
     expressions |-> [i \in 1..Len(function.expressions) |-> ExpressionInfo_default]]

\* process_function: `let mut info = FunctionInfo { .. }`
FunctionInfo_new(function, global_var_arena) ==
    [uniformity |-> Uniformity_default,
     may_kill |-> FALSE,
     sampling_set |-> {},
     global_uses |-> [i \in 1..Len(global_var_arena) |-> {}],
     expressions |-> [i \in 1..Len(function.expressions) |-> ExpressionInfo_default]]

\* process_function: `for (handle, _) in fun.expressions.iter() { .. ? }` from
\* `handle` on
RECURSIVE expression_pass(_, _, _, _, _)
expression_pass(self, h, function, global_var_arena, other_functions) ==
    IF h > Len(function.expressions) THEN [self |-> self, res |-> Ok]
    ELSE Then(process_expression(self, h, function.expressions, global_var_arena,
                                 other_functions), LAMBDA r :
         IF r.res.tag # "Ok" THEN r
         ELSE expression_pass(r.self, h + 1, function, global_var_arena, other_functions))

\* Analysis::process_function, from call to return: `res` is Ok and `info` the
\* FunctionInfo returned, or `res` is the error (and `info` what was dropped)
process_function(this_functions, function, global_var_arena) ==
    Then(expression_pass(FunctionInfo_new(function, global_var_arena), 1, function,
                         global_var_arena, this_functions), LAMBDA e :
    IF e.res.tag # "Ok" THEN [res |-> e.res, info |-> e.self]
    ELSE
    Then(process_block(e.self, function.body, this_functions, NoDisruptor), LAMBDA b :
    IF b.res.tag # "Ok" THEN [res |-> b.res, info |-> b.self]
    ELSE [res |-> Ok,
          info |-> [b.self EXCEPT !.uniformity = b.uniformity,
                                  !.may_kill = MAY_KILL \in b.exit]]))

\* the state after `let mut this = Analysis { .. }`, for a module of one of the
\* given sets
InitOf(modules) ==
    /\ \E i \in 1..Len(modules) : module \in modules[i]
    /\ functions = <<>>
    /\ entry_points = <<>>
    /\ info = FunctionInfo_new([expressions |-> <<>>], <<>>)
    /\ pc = "new"
    /\ handle = 1
    /\ cursor = 1
    /\ locals = block_locals(NoDisruptor)
    /\ result = Running

\* Analysis::new calls process_function, which allocates the FunctionInfo
BeginFunction ==
    /\ pc = "new"
    /\ Current <= Len(module.functions) + Len(module.entry_points)
    /\ info' = FunctionInfo_new(fun, module.global_variables)
    /\ handle' = 1
    /\ pc' = "expressions"
    /\ UNCHANGED <<module, functions, entry_points, cursor, locals, result>>

\* an expression pass that goes on after an error, leaving the expression as
\* it was allocated
ProcessExpression_going_on ==
    /\ pc = "expressions"
    /\ handle <= Len(fun.expressions)
    /\ \E r \in {process_expression(info, handle, fun.expressions,
                                    module.global_variables, functions)} :
           info' = IF r.res.tag = "Ok" THEN r.self ELSE info
    /\ handle' = handle + 1
    /\ UNCHANGED <<module, functions, entry_points, cursor, locals, pc, result>>

\* process_function: one iteration of `for (handle, _) in fun.expressions.iter()`
ProcessExpression ==
    /\ pc = "expressions"
    /\ handle <= Len(fun.expressions)
    /\ \E r \in {process_expression(info, handle, fun.expressions,
                                    module.global_variables, functions)} :
           /\ info' = r.self
           /\ IF r.res.tag = "Ok"
              THEN /\ handle' = handle + 1
                   /\ UNCHANGED <<pc, result>>
              ELSE /\ result' = r.res
                   /\ pc' = "done"
                   /\ UNCHANGED handle
    /\ UNCHANGED <<module, functions, entry_points, cursor, locals>>

\* process_function calls process_block on the body with no disruptor
EnterBlock ==
    /\ pc = "expressions"
    /\ handle > Len(fun.expressions)
    /\ locals' = block_locals(NoDisruptor)
    /\ cursor' = 1
    /\ pc' = "block"
    /\ UNCHANGED <<module, functions, entry_points, info, handle, result>>

\* process_block on the body: one iteration of `for statement in statements`
ProcessStatement ==
    /\ pc = "block"
    /\ cursor <= Len(fun.body)
    /\ \E r \in {block_iteration(info, fun.body[cursor], functions, locals)} :
           /\ info' = r.self
           /\ locals' = r.locals
           /\ IF r.res.tag = "Ok"
              THEN /\ cursor' = cursor + 1
                   /\ UNCHANGED <<pc, result>>
              ELSE /\ result' = r.res
                   /\ pc' = "done"
                   /\ UNCHANGED cursor
    /\ UNCHANGED <<module, functions, entry_points, handle>>

\* an Analysis::new that pushes the info before uniformity and may_kill are
\* stored in it
FinishFunction_pushing_early ==
    /\ pc = "block"
    /\ cursor > Len(fun.body)
    /\ info' = [info EXCEPT !.uniformity = locals.block_uniformity,
                            !.may_kill = MAY_KILL \in locals.block_exit]
    /\ IF IsEntryPoint(Current)
       THEN /\ entry_points' = Append(entry_points, info)
            /\ UNCHANGED functions
       ELSE /\ functions' = Append(functions, info)
            /\ UNCHANGED entry_points
    /\ pc' = "new"
    /\ UNCHANGED <<module, handle, cursor, locals, result>>

\* process_block returns Ok; process_function stores uniformity and may_kill and
\* returns the info, which Analysis::new pushes
FinishFunction ==
    /\ pc = "block"
    /\ cursor > Len(fun.body)
    /\ \E done \in {[info EXCEPT !.uniformity = locals.block_uniformity,
                                 !.may_kill = MAY_KILL \in locals.block_exit]} :
           /\ info' = done
           /\ IF IsEntryPoint(Current)
              THEN /\ entry_points' = Append(entry_points, done)
                   /\ UNCHANGED functions
              ELSE /\ functions' = Append(functions, done)
                   /\ UNCHANGED entry_points
    /\ pc' = "new"
    /\ UNCHANGED <<module, handle, cursor, locals, result>>

\* Analysis::new: `Ok(this)`
Finish ==
    /\ pc = "new"
    /\ Current > Len(module.functions) + Len(module.entry_points)
    /\ result' = Ok
    /\ pc' = "done"
    /\ UNCHANGED <<module, functions, entry_points, info, handle, cursor, locals>>

Next ==
    \/ BeginFunction
    \/ ProcessExpression
    \/ EnterBlock
    \/ ProcessStatement
    \/ FinishFunction
    \/ Finish

(***************************************************************************)
(* The modules analysed: bounded sets of crate::Module values              *)
(***************************************************************************)
\* a function body holds at most MaxStatements statements, nested ones included
MaxStatements == 3
\* a Switch has at most MaxCases cases
MaxCases == 2

\* the global variables of the test `uniform_control_flow`
non_uniform_global ==
    [binding |-> [tag |-> "BuiltIn", built_in |-> "VertexIndex"], class |-> "Input",
     interpolation |-> "None", storage_access |-> {}]
uniform_global ==
    [binding |-> [tag |-> "Location"], class |-> "Input",
     interpolation |-> "Flat", storage_access |-> {}]
TestGlobals == <<non_uniform_global, uniform_global>>

\* the expression arena of the test `uniform_control_flow`, and its handles
constant_expr == 1
derivative_expr == 2
non_uniform_global_expr == 3
uniform_global_expr == 4
query_expr == 5
access_expr == 6
TestExpressions ==
    << [kind |-> "Constant"],
       [kind |-> "Derivative", expr |-> constant_expr],
       [kind |-> "GlobalVariable", global |-> 1],
       [kind |-> "GlobalVariable", global |-> 2],
       [kind |-> "ArrayLength", expr |-> uniform_global_expr],
       [kind |-> "AccessIndex", base |-> non_uniform_global_expr] >>

\* statements over that arena
Kill == [kind |-> "Kill"]
Return(value) == [kind |-> "Return", value |-> value]
Store(pointer, value) == [kind |-> "Store", pointer |-> pointer, value |-> value]
Call(function, arguments, res) ==
    [kind |-> "Call", function |-> function, arguments |-> arguments, result |-> res]
If(condition, accept, reject) ==
    [kind |-> "If", condition |-> condition, accept |-> accept, reject |-> reject]
Loop(body, continuing) == [kind |-> "Loop", body |-> body, continuing |-> continuing]
Block(block) == [kind |-> "Block", block |-> block]
Switch(selector, cases, default) ==
    [kind |-> "Switch", selector |-> selector, cases |-> cases, default |-> default]

\* the union of a sequence of sets
RECURSIVE CupAll(_)
CupAll(sets) == IF sets = <<>> THEN {} ELSE Head(sets) \cup CupAll(Tail(sets))

\* the ways to cut n statements into k blocks, each a sequence of k block sizes;
\* CutsFrom holds those whose first block has at least i statements
RECURSIVE Cuts(_, _), CutsFrom(_, _, _)
Cuts(n, k) ==
    IF k = 0 THEN (IF n = 0 THEN << <<>> >> ELSE <<>>)
    ELSE CutsFrom(n, k, 0)
CutsFrom(n, k, i) ==
    IF i > n THEN <<>>
    ELSE LET rest == Cuts(n - i, k - 1)
         IN  [j \in 1..Len(rest) |-> <<i>> \o rest[j]] \o CutsFrom(n, k, i + 1)

\* all tuples that take their i-th component from sets[i]
RECURSIVE Tuples(_)
Tuples(sets) ==
    IF Len(sets) = 0 THEN {<<>>}
    ELSE {<<x>> \o t : x \in sets[1], t \in Tuples(Tail(sets))}

\* Every statement and block of exactly n statements over an alphabet A of leaf
\* statements, If conditions and Switch selectors, as a sequence of sets.  T is
\* the table of the smaller blocks: T[j + 1] holds the blocks of j statements.
\* The fall_through of the last case of a Switch is FALSE: no code reads it.
RECURSIVE Concat(_)
Concat(seqs) == IF seqs = <<>> THEN <<>> ELSE Head(seqs) \o Concat(Tail(seqs))
BlockTuples(T, n, k) ==
    LET cuts == Cuts(n, k)
    IN  [j \in 1..Len(cuts) |-> Tuples([i \in 1..k |-> T[cuts[j][i] + 1]])]
FallThroughs(k) ==
    {f \in [1..k -> BOOLEAN] : k > 0 => ~f[k]}
Switches(A, T, n, k) ==
    LET tuples == BlockTuples(T, n - 1, k + 1)
    IN  [j \in 1..Len(tuples) |->
            {Switch(sel, [i \in 1..k |-> [body |-> b[i], fall_through |-> f[i]]],
                    b[k + 1]) :
                sel \in A.selectors, f \in FallThroughs(k), b \in tuples[j]}]
StatementsOfSize(A, T, n) ==
    LET pairs == BlockTuples(T, n - 1, 2)
    IN  << IF n = 1 THEN A.leaves ELSE {}, {Block(b) : b \in T[n]} >>
        \o [j \in 1..Len(pairs) |->
               {If(c, b[1], b[2]) : c \in A.conditions, b \in pairs[j]}]
        \o [j \in 1..Len(pairs) |-> {Loop(b[1], b[2]) : b \in pairs[j]}]
        \o Concat([k \in 1..(MaxCases + 1) |-> Switches(A, T, n, k - 1)])
BlocksOfSize(A, T, n) ==
    Concat([k \in 1..n |->
               LET first == StatementsOfSize(A, T, k)
               IN  [j \in 1..Len(first) |->
                       {<<st>> \o b : st \in first[j], b \in T[n - k + 1]}]])
RECURSIVE BlockTable(_, _)
BlockTable(A, n) ==
    IF n = 0 THEN << {<<>>} >>
    ELSE LET T == BlockTable(A, n - 1) IN Append(T, CupAll(BlocksOfSize(A, T, n)))
Bodies(A, n) ==
    IF n = 0 THEN << {<<>>} >>
    ELSE LET T == BlockTable(A, n - 1)
         IN  << {<<>>} >> \o Concat([k \in 1..n |-> BlocksOfSize(A, T, k)])

\* control-flow statements over the test arena
BlockAlphabet ==
    [leaves |-> {Kill, Return(non_uniform_global_expr), Return(derivative_expr),
                 Store(constant_expr, derivative_expr)},
     conditions |-> {uniform_global_expr, non_uniform_global_expr, derivative_expr},
     selectors |-> {uniform_global_expr, non_uniform_global_expr}]

\* one function over the test arena, for every body of at most n statements
BlockModules(n) ==
    LET bodies == Bodies(BlockAlphabet, n)
    IN  [j \in 1..Len(bodies) |->
            {[global_variables |-> TestGlobals,
              functions |-> << [expressions |-> TestExpressions, body |-> b] >>,
              entry_points |-> <<>>] : b \in bodies[j]}]

InitBlock == InitOf(BlockModules(MaxStatements))
SpecBlock == InitBlock /\ [][Next]_vars

(***************************************************************************)
(* Vocabulary of the properties: what a function's text says, read off the *)
(* statement tree without running the block pass.  E is the expressions    *)
(* slice of a FunctionInfo after the expression pass, F the FunctionInfos  *)
(* of the callees.                                                         *)
(***************************************************************************)
\* the blocks nested directly in a statement, in the order they are visited
Children(st) ==
    CASE st.kind = "If" -> <<st.accept, st.reject>>
      [] st.kind = "Switch" ->
            [i \in 1..Len(st.cases) |-> st.cases[i].body] \o <<st.default>>
      [] st.kind = "Loop" -> <<st.body, st.continuing>>
      [] st.kind = "Block" -> <<st.block>>
      [] OTHER -> <<>>

\* every statement of a block, nested ones included, in visiting order
RECURSIVE Flatten(_), FlattenAll(_)
Flatten(block) ==
    IF block = <<>> THEN <<>>
    ELSE <<Head(block)>> \o FlattenAll(Children(Head(block))) \o Flatten(Tail(block))
FlattenAll(blocks) ==
    IF blocks = <<>> THEN <<>>
    ELSE Flatten(Head(blocks)) \o FlattenAll(Tail(blocks))

\* the statements nested at any depth in a statement
Nested(st) == FlattenAll(Children(st))

Some(h) == IF h = None THEN <<>> ELSE <<h>>

\* the expression operands a statement names itself (not its nested statements)
OwnOperands(st) ==
    CASE st.kind = "If" -> <<st.condition>>
      [] st.kind = "Switch" -> <<st.selector>>
      [] st.kind = "Return" -> Some(st.value)
      [] st.kind = "Store" -> <<st.pointer, st.value>>
      [] st.kind = "ImageStore" ->
            Some(st.array_index) \o <<st.image, st.coordinate, st.value>>
      [] st.kind = "Call" -> st.arguments \o Some(st.result)
      [] OTHER -> <<>>

\* the first Some of a sequence of options
RECURSIVE FirstSome(_)
FirstSome(options) ==
    IF options = <<>> THEN None
    ELSE IF Head(options) # None THEN Head(options)
    ELSE FirstSome(Tail(options))

\* the witnesses a statement gets from its own operands (and, for a Call, from
\* the callee), those of a callee first
OwnRequire(E, F, st) ==
    FirstSome((IF st.kind = "Call" THEN <<F[st.function].uniformity.require_uniform>>
               ELSE <<>>)
              \o [i \in 1..Len(OwnOperands(st)) |->
                     E[OwnOperands(st)[i]].uniformity.require_uniform])
OwnNonUniform(E, F, st) ==
    FirstSome((IF st.kind = "Call" THEN <<F[st.function].uniformity.non_uniform_result>>
               ELSE <<>>)
              \o [i \in 1..Len(OwnOperands(st)) |->
                     E[OwnOperands(st)[i]].uniformity.non_uniform_result])

\* the require_uniform witness of the first statement, in visiting order, that
\* has one
FirstRequire(E, F, statements) ==
    FirstSome([i \in 1..Len(statements) |-> OwnRequire(E, F, statements[i])])

\* an If or a Switch that branches on a non-uniform value
NonUniformBranch(E, st) ==
    /\ st.kind \in {"If", "Switch"}
    /\ E[OwnOperands(st)[1]].uniformity.non_uniform_result # None

\* the exit flags a statement has by its text: Return, Kill, a Call of a
\* function that may kill, at any depth
OwnExit(F, st) ==
    CASE st.kind = "Return" -> {MAY_RETURN}
      [] st.kind = "Kill" -> {MAY_KILL}
      [] st.kind = "Call" -> IF F[st.function].may_kill THEN {MAY_KILL} ELSE {}
      [] OTHER -> {}
ExitsOf(F, statements) ==
    UNION {OwnExit(F, statements[i]) : i \in 1..Len(statements)}
TextExit(F, st) == ExitsOf(F, <<st>> \o Nested(st))

\* the FunctionInfo of the k-th function in processing order, once pushed
InfoAt(k) ==
    IF IsEntryPoint(k) THEN entry_points[k - Len(module.functions)] ELSE functions[k]

(***************************************************************************)
(* Uniformity check                                                        *)
(***************************************************************************)
\* the expressions slice to read a function's statements with: that of the
\* pushed FunctionInfo, or `info` for the function under analysis
ExpressionsAt(k) == IF k <= Processed THEN InfoAt(k).expressions ELSE info.expressions

\* function k has a statement that requires uniformity nested in an If or a
\* Switch that branches on a non-uniform value
RequireInNonUniformBranch(k) ==
    LET all == Flatten(FunctionAt(k).body)
    IN  \E i \in 1..Len(all) :
            /\ NonUniformBranch(ExpressionsAt(k), all[i])
            /\ FirstRequire(ExpressionsAt(k), functions, Nested(all[i])) # None

\* C1: when Analysis::new returns Ok, no function has a statement that requires
\* uniformity nested, at any depth, in the accept or reject block of an If with a
\* non-uniform condition, or in any case body or the default body of a Switch
\* with a non-uniform selector.
C1_AcceptedIsUniform ==
    (pc = "done" /\ result = Ok) =>
        \A k \in 1..Processed : ~RequireInNonUniformBranch(k)

\* the statement that process_block is about to process
AtStatement == pc = "block" /\ cursor <= Len(fun.body)
statement == fun.body[cursor]

\* an If with a non-uniform condition that requires nothing itself, and with a
\* statement that requires uniformity somewhere in accept or reject
NonUniformIfRequiring(st) ==
    /\ st.kind = "If"
    /\ info.expressions[st.condition].uniformity.non_uniform_result # None
    /\ info.expressions[st.condition].uniformity.require_uniform = None
    /\ FirstRequire(info.expressions, functions, Nested(st)) # None

RECURSIVE FirstExit(_, _)
FirstExit(F, statements) ==
    IF statements = <<>> THEN {}
    ELSE IF TextExit(F, Head(statements)) # {} THEN TextExit(F, Head(statements))
    ELSE FirstExit(F, Tail(statements))

\* the cause named by exit flags: Return if they hold MAY_RETURN, else Kill
CauseOf(flags) ==
    IF flags = {} THEN NoDisruptor
    ELSE IF MAY_RETURN \in flags THEN DisruptorReturn
    ELSE DisruptorKill

\* C3: in the body of a function (no parent disruptor), the disruptor in force
\* at a statement is the cause named by the exit flags of the first earlier
\* statement of the block that has any (none if there is none); a statement that
\* nests nothing is accepted when no disruptor is in force before it, whatever
\* its own exit flags; and a statement with require_uniform = Some(w) met under
\* a disruptor makes process_block return Err(NonUniformControlFlow(w, cause)).
C3_StatementOrder ==
    [][(pc = "block") =>
         /\ locals.disruptor =
                CauseOf(FirstExit(functions, SubSeq(fun.body, 1, cursor - 1)))
         /\ (cursor <= Len(fun.body) /\ locals.disruptor = NoDisruptor
                /\ Children(statement) = <<>>) => pc' = "block"
         /\ (cursor <= Len(fun.body) /\ locals.disruptor # NoDisruptor
                /\ FirstRequire(info.expressions, functions,
                                <<statement>> \o Nested(statement)) # None)
              => /\ pc' = "done"
                 /\ result' = NonUniformControlFlow(
                        FirstRequire(info.expressions, functions,
                                     <<statement>> \o Nested(statement)),
                        locals.disruptor)
      ]_vars

\* a Kill, then a Return, then a statement that requires uniformity: rejected
\* because of the Kill
C3_Witness ==
    /\ pc = "done"
    /\ result.tag = "NonUniformControlFlow"
    /\ result.cause = DisruptorKill
    /\ cursor = 3
    /\ TextExit(functions, fun.body[1]) = {MAY_KILL}
    /\ MAY_RETURN \in TextExit(functions, fun.body[2])

\* statement i of `all` (the statements of a body in visiting order) can be
\* under disruptor d: an earlier Return, an earlier Kill or Call of a function
\* that may kill, or an enclosing If or Switch that branches on the expression
Justified(E, F, all, i, d) ==
    CASE d.tag = "Return" -> \E j \in 1..(i - 1) : all[j].kind = "Return"
      [] d.tag = "Kill" -> \E j \in 1..(i - 1) : OwnExit(F, all[j]) = {MAY_KILL}
      [] d.tag = "Expression" ->
            \E j \in 1..(i - 1) :
                /\ NonUniformBranch(E, all[j])
                /\ E[OwnOperands(all[j])[1]].uniformity.non_uniform_result = d.expr
                /\ i <= j + Len(Nested(all[j]))
      [] OTHER -> FALSE

\* function k has no exiting statement and branches on uniform values only
Calm(k) ==
    LET all == Flatten(FunctionAt(k).body)
    IN  /\ ExitsOf(functions, all) = {}
        /\ \A i \in 1..Len(all) : ~NonUniformBranch(ExpressionsAt(k), all[i])

\* C4: Analysis::new returns Err(NonUniformControlFlow(w, d)) only if some
\* statement (or If condition) of the function has require_uniform = Some(w) and
\* can be under d: so a function with no statement that requires uniformity is
\* accepted, and so is one with no exiting statement whose If conditions and
\* Switch selectors are all uniform, whose FunctionInfo then carries the witness
\* of the first statement that requires uniformity.
C4_NoFalseRejection ==
    (pc = "done") =>
        /\ (result.tag = "NonUniformControlFlow") =>
              LET all == Flatten(fun.body)
              IN  \E i \in 1..Len(all) :
                      /\ OwnRequire(info.expressions, functions, all[i]) = result.expr
                      /\ Justified(info.expressions, functions, all, i, result.cause)
        /\ \A k \in 1..Processed :
              Calm(k) => InfoAt(k).uniformity.require_uniform =
                             FirstRequire(InfoAt(k).expressions, functions,
                                          Flatten(FunctionAt(k).body))

\* an accepted function that requires uniformity inside an If on a uniform value
C4_Witness ==
    /\ pc = "done"
    /\ result = Ok
    /\ Calm(1)
    /\ InfoAt(1).uniformity.require_uniform # None
    /\ \E i \in 1..Len(FunctionAt(1).body) :
           /\ FunctionAt(1).body[i].kind = "If"
           /\ FirstRequire(InfoAt(1).expressions, functions,
                           Nested(FunctionAt(1).body[i])) # None

(***************************************************************************)
(* Modules with calls: a function without calls, a function that calls it, *)
(* and an entry point that calls either                                    *)
(***************************************************************************)
\* the body of a calling function holds at most MaxCallerStatements statements
MaxCallerStatements == 2

\* an image, a sampler and a writable storage buffer
CallGlobals ==
    << [binding |-> [tag |-> "Resource"], class |-> "Handle",
        interpolation |-> "None", storage_access |-> {}],
       [binding |-> [tag |-> "Resource"], class |-> "Handle",
        interpolation |-> "None", storage_access |-> {}],
       [binding |-> [tag |-> "Resource"], class |-> "Storage",
        interpolation |-> "None", storage_access |-> {"LOAD", "STORE"}] >>

\* samples image 1 with sampler 2 at level zero
SamplingExpressions ==
    << [kind |-> "GlobalVariable", global |-> 1],
       [kind |-> "GlobalVariable", global |-> 2],
       [kind |-> "Constant"],
       [kind |-> "ImageSample", image |-> 1, sampler |-> 2, coordinate |-> 3,
        array_index |-> None, level |-> [tag |-> "Zero"], depth_ref |-> None] >>

\* a pointer into the buffer and a value
BufferExpressions ==
    << [kind |-> "GlobalVariable", global |-> 3],
       [kind |-> "AccessIndex", base |-> 1],
       [kind |-> "Constant"] >>

\* a derivative, and a load from the buffer
DerivativeExpressions ==
    << [kind |-> "Constant"],
       [kind |-> "Derivative", expr |-> 1],
       [kind |-> "GlobalVariable", global |-> 3],
       [kind |-> "Load", pointer |-> 3] >>

Function(expressions, body) == [expressions |-> expressions, body |-> body]

\* functions that call nothing
LeafFunctions ==
    { Function(<<>>, <<>>),
      Function(<<>>, <<Kill>>),
      Function(<<>>, <<Return(None)>>),
      Function(SamplingExpressions, <<>>),
      Function(SamplingExpressions, <<Block(<<Kill>>)>>),
      Function(BufferExpressions, <<Store(2, 3)>>),
      Function(DerivativeExpressions, <<Store(1, 2)>>) }

\* all sequences of at most n elements of a set
RECURSIVE SeqsUpTo(_, _)
SeqsUpTo(S, n) ==
    IF n = 0 THEN {<<>>}
    ELSE LET shorter == SeqsUpTo(S, n - 1)
         IN  shorter \cup {Append(q, x) : q \in shorter, x \in S}

\* functions that may call the functions of `callees`, in a Call expression or
\* in Call statements, with bodies of at most n statements
CallingFunctions(callees, n) ==
    LET arenas == {DerivativeExpressions}
                  \cup {Append(DerivativeExpressions, [kind |-> "Call", function |-> j]) :
                           j \in callees}
        leaves == {Kill, Return(None), Store(1, 2)}
                  \cup {Call(j, <<>>, None) : j \in callees}
    IN  {Function(a, b) : a \in arenas, b \in SeqsUpTo(leaves, n)}

\* a function that calls nothing; then also one that may call it, in at most n
\* statements; then also an entry point that may call either
CallModules(n) ==
    LET middles == CallingFunctions({1}, n)
        tops == CallingFunctions({1, 2}, 1)
    IN  << {[global_variables |-> CallGlobals, functions |-> <<l>>,
             entry_points |-> <<>>] : l \in LeafFunctions},
           {[global_variables |-> CallGlobals, functions |-> <<l, m>>,
             entry_points |-> <<>>] : l \in LeafFunctions, m \in middles},
           {[global_variables |-> CallGlobals, functions |-> <<l, m>>,
             entry_points |-> <<t>>] : l \in LeafFunctions, m \in middles, t \in tops} >>

InitCall == InitOf(CallModules(MaxCallerStatements))
SpecCall == InitCall /\ [][Next]_vars

\* every module of the two families
Init == InitOf(BlockModules(MaxStatements) \o CallModules(MaxCallerStatements))
Spec == Init /\ [][Next]_vars

(***************************************************************************)
(* Global uses, sampling pairs and may_kill across calls                   *)
(***************************************************************************)
\* the operand positions of an expression, each with the use it makes of the
\* global its operand reaches: the base of an Access or AccessIndex makes none
BASE == "BASE"
Operand(h, use) == [handle |-> h, use |-> use]
Reads(handles) == [i \in 1..Len(handles) |-> Operand(handles[i], READ)]
ExpressionOperands(e) ==
    CASE e.kind = "Access" -> <<Operand(e.base, BASE), Operand(e.index, READ)>>
      [] e.kind = "AccessIndex" -> <<Operand(e.base, BASE)>>
      [] e.kind = "Compose" -> Reads(e.components)
      [] e.kind = "Load" -> Reads(<<e.pointer>>)
      [] e.kind = "ImageSample" ->
            Reads(<<e.image, e.sampler, e.coordinate>> \o Some(e.array_index)
                  \o (CASE e.level.tag \in {"Exact", "Bias"} -> <<e.level.x>>
                        [] e.level.tag = "Gradient" -> <<e.level.x, e.level.y>>
                        [] OTHER -> <<>>)
                  \o Some(e.depth_ref))
      [] e.kind = "ImageLoad" ->
            Reads(<<e.image, e.coordinate>> \o Some(e.array_index) \o Some(e.index))
      [] e.kind = "ImageQuery" ->
            <<Operand(e.image, QUERY)>>
            \o Reads(IF e.query.tag = "Size" THEN Some(e.query.level) ELSE <<>>)
      [] e.kind \in {"Unary", "As", "Derivative"} -> Reads(<<e.expr>>)
      [] e.kind = "Binary" -> Reads(<<e.left, e.right>>)
      [] e.kind = "Select" -> Reads(<<e.condition, e.accept, e.reject>>)
      [] e.kind = "Relational" -> Reads(<<e.argument>>)
      [] e.kind = "Math" -> Reads(<<e.arg>> \o Some(e.arg1) \o Some(e.arg2))
      [] e.kind = "ArrayLength" -> <<Operand(e.expr, QUERY)>>
      [] OTHER -> <<>>

\* the operand positions of a statement itself: the pointer of a Store and the
\* image of an ImageStore are written
StatementOperands(st) ==
    CASE st.kind = "Store" -> <<Operand(st.pointer, WRITE), Operand(st.value, READ)>>
      [] st.kind = "ImageStore" ->
            <<Operand(st.image, WRITE)>>
            \o Reads(<<st.coordinate>> \o Some(st.array_index) \o <<st.value>>)
      [] OTHER -> Reads(OwnOperands(st))

\* every operand position of a function: of its expressions, then of its
\* statements at any depth
FunctionOperands(function) ==
    Concat([h \in 1..Len(function.expressions) |->
               ExpressionOperands(function.expressions[h])])
    \o Concat([i \in 1..Len(Flatten(function.body)) |->
                  StatementOperands(Flatten(function.body)[i])])

\* the global at the root of the Access/AccessIndex chain of expression h
RECURSIVE Root(_, _)
Root(expressions, h) ==
    CASE expressions[h].kind = "GlobalVariable" -> expressions[h].global
      [] expressions[h].kind \in {"Access", "AccessIndex"} ->
            Root(expressions, expressions[h].base)
      [] OTHER -> None

\* the uses a function makes of global g by itself
DirectUses(function, g) ==
    LET ops == FunctionOperands(function)
    IN  {ops[i].use : i \in {j \in 1..Len(ops) :
                               /\ ops[j].use # BASE
                               /\ Root(function.expressions, ops[j].handle) = g}}

\* the image-sampler pairs a function samples by itself
DirectSampling(function) ==
    {[image |-> function.expressions[function.expressions[h].image].global,
      sampler |-> function.expressions[function.expressions[h].sampler].global] :
        h \in {i \in 1..Len(function.expressions) :
                  function.expressions[i].kind = "ImageSample"}}

\* the functions a function calls, in Call expressions and in Call statements
CallExpressionTargets(function) ==
    {function.expressions[h].function :
        h \in {i \in 1..Len(function.expressions) :
                  function.expressions[i].kind = "Call"}}
CallStatementTargets(function) ==
    {Flatten(function.body)[i].function :
        i \in {j \in 1..Len(Flatten(function.body)) :
                  Flatten(function.body)[j].kind = "Call"}}
Callees(function) == CallExpressionTargets(function) \cup CallStatementTargets(function)

\* C5: after a successful analysis, the global_uses of every function are its
\* own direct uses united with the global_uses of the functions it calls (in a
\* Call statement or a Call expression), and its sampling_set is its own pairs
\* united with the callees' sets; so it dominates each callee, and each callee
\* of a callee.
C5_CallInheritance ==
    (pc = "done" /\ result = Ok) =>
        \A k \in 1..Processed :
            LET f == FunctionAt(k)
                I == InfoAt(k)
            IN  /\ \A g \in 1..Len(module.global_variables) :
                       I.global_uses[g] =
                           DirectUses(f, g)
                           \cup UNION {functions[c].global_uses[g] : c \in Callees(f)}
                /\ I.sampling_set =
                       DirectSampling(f)
                       \cup UNION {functions[c].sampling_set : c \in Callees(f)}
                /\ \A c \in Callees(f) :
                       /\ dominates_global_use(I, functions[c])
                       /\ functions[c].sampling_set \subseteq I.sampling_set
                       /\ \A d \in Callees(FunctionAt(c)) :
                              /\ dominates_global_use(I, functions[d])
                              /\ functions[d].sampling_set \subseteq I.sampling_set

\* an entry point that inherits a sampling pair and a use through two calls,
\* and has a use of its own
C5_Witness ==
    /\ pc = "done"
    /\ result = Ok
    /\ Len(entry_points) = 1
    /\ Callees(module.entry_points[1]) = {2}
    /\ Callees(module.functions[2]) = {1}
    /\ functions[1].sampling_set # {}
    /\ entry_points[1].sampling_set = functions[1].sampling_set
    /\ entry_points[1].global_uses = <<{READ}, {READ}, {READ}>>

\* C6: after a successful analysis, may_kill of a function is true iff its body
\* holds a Kill at some depth or the function calls, in a Call statement or a
\* Call expression, a function whose may_kill is true.
C6_MayKillExact ==
    (pc = "done" /\ result = Ok) =>
        \A k \in 1..Processed :
            InfoAt(k).may_kill <=>
                \/ \E i \in 1..Len(Flatten(FunctionAt(k).body)) :
                       Flatten(FunctionAt(k).body)[i].kind = "Kill"
                \/ \E c \in Callees(FunctionAt(k)) : functions[c].may_kill

(***************************************************************************)
(* Modules of one function over every small expression arena               *)
(***************************************************************************)
\* an expression arena holds at most MaxExpressions expressions
MaxExpressions == 3

\* the expressions whose operands are among the handles H (the earlier ones:
\* handles are in topological order) over two global variables, calling the
\* functions of `callees`; an ImageLoad and an ImageSample take their
\* coordinate from their second operand
ExpressionsOver(H, callees) ==
    LET O == H \cup {None}
    IN  {[kind |-> "Constant"], [kind |-> "FunctionArgument"], [kind |-> "LocalVariable"],
         [kind |-> "GlobalVariable", global |-> 1],
         [kind |-> "GlobalVariable", global |-> 2]}
        \cup {[kind |-> "Call", function |-> j] : j \in callees}
        \cup {[kind |-> "AccessIndex", base |-> a] : a \in H}
        \cup {[kind |-> "Load", pointer |-> a] : a \in H}
        \cup {[kind |-> k, expr |-> a] : k \in {"Unary", "As", "Derivative", "ArrayLength"},
                                         a \in H}
        \cup {[kind |-> "Relational", argument |-> a] : a \in H}
        \cup {[kind |-> "ImageQuery", image |-> a, query |-> q] :
                 a \in H, q \in {[tag |-> "NumLevels"]}
                                \cup {[tag |-> "Size", level |-> l] : l \in O}}
        \cup {[kind |-> "Access", base |-> a, index |-> b] : a \in H, b \in H}
        \cup {[kind |-> "Binary", left |-> a, right |-> b] : a \in H, b \in H}
        \cup {[kind |-> "Select", condition |-> a, accept |-> b, reject |-> c] :
                 a \in H, b \in H, c \in H}
        \cup {[kind |-> "Math", arg |-> a, arg1 |-> b, arg2 |-> c] :
                 a \in H, b \in O, c \in O}
        \cup {[kind |-> "Compose", components |-> c] : c \in SeqsUpTo(H, 2)}
        \cup {[kind |-> "ImageLoad", image |-> a, coordinate |-> b,
               array_index |-> IF c THEN a ELSE None,
               index |-> IF d THEN b ELSE None] :
                 a \in H, b \in H, c \in BOOLEAN, d \in BOOLEAN}
        \cup {[kind |-> "ImageSample", image |-> a, sampler |-> b, coordinate |-> b,
               array_index |-> None,
               level |-> CASE l = "Exact" -> [tag |-> l, x |-> a]
                           [] l = "Bias" -> [tag |-> l, x |-> b]
                           [] l = "Gradient" -> [tag |-> l, x |-> a, y |-> b]
                           [] OTHER -> [tag |-> l],
               depth_ref |-> IF d THEN a ELSE None] :
                 a \in H, b \in H, d \in BOOLEAN,
                 l \in {"Auto", "Zero", "Exact", "Bias", "Gradient"}}

\* every arena of exactly n expressions
RECURSIVE Arenas(_, _)
Arenas(n, callees) ==
    IF n = 0 THEN {<<>>}
    ELSE {Append(a, e) : a \in Arenas(n - 1, callees),
                         e \in ExpressionsOver(1..(n - 1), callees)}

\* a body without calls that names the first and the last expression of an
\* arena of n expressions
StoreBody(n) ==
    IF n = 0 THEN <<Return(None)>> ELSE <<Store(n, 1), Return(n)>>

\* a body of nested statements that calls function 1
NestedBody(n) ==
    IF n = 0 THEN <<Loop(<<Call(1, <<>>, None)>>, <<>>)>>
    ELSE <<If(n, <<[kind |-> "ImageStore", image |-> 1, coordinate |-> n,
                    array_index |-> None, value |-> n]>>,
                 <<Store(1, n)>>),
           Switch(1, <<[body |-> <<Loop(<<Call(1, <<n, 1>>, n)>>, <<>>)>>,
                        fall_through |-> FALSE]>>,
                     <<Return(1)>>)>>

\* one function over every arena of at most max expressions, alone or after a
\* function it may call
ExpressionModules(max) ==
    [i \in 1..(max + 1) |->
        {[global_variables |-> TestGlobals,
          functions |-> <<Function(a, StoreBody(i - 1))>>,
          entry_points |-> <<>>] : a \in Arenas(i - 1, {})}]
    \o [i \in 1..(max + 1) |->
           {[global_variables |-> TestGlobals,
             functions |-> <<Function(<<>>, <<Return(None)>>),
                             Function(a, NestedBody(i - 1))>>,
             entry_points |-> <<>>] : a \in Arenas(i - 1, {1})}]

InitExpression == InitOf(ExpressionModules(MaxExpressions))
SpecExpression == InitExpression /\ [][Next]_vars

(***************************************************************************)
(* Reference counts, assignable globals and buffer sizes                   *)
(***************************************************************************)
\* the number of operand positions of a function that name expression e
Positions(function, e) ==
    LET ops == FunctionOperands(function)
    IN  Cardinality({i \in 1..Len(ops) : ops[i].handle = e})

RECURSIVE SumRefCount(_, _)
SumRefCount(expressions, n) ==
    IF n = 0 THEN 0 ELSE expressions[n].ref_count + SumRefCount(expressions, n - 1)

\* C7: after a successful analysis, the ref_count of every expression of every
\* function is the number of operand positions naming it in the function's
\* expressions and in the statements of its body at any depth, and the
\* ref_counts of a function add up to the number of its operand positions.
C7_RefCountExact ==
    (pc = "done" /\ result = Ok) =>
        \A k \in 1..Processed :
            /\ \A e \in 1..Len(FunctionAt(k).expressions) :
                   InfoAt(k).expressions[e].ref_count = Positions(FunctionAt(k), e)
            /\ SumRefCount(InfoAt(k).expressions, Len(InfoAt(k).expressions)) =
                   Len(FunctionOperands(FunctionAt(k)))

\* an expression named twice by one later expression and again by nested
\* statements, as a Call argument and as the selector of a Switch
C7_Witness ==
    /\ pc = "done"
    /\ result = Ok
    /\ Processed = 2
    /\ Len(module.functions[2].expressions) = MaxExpressions
    /\ module.functions[2].expressions[2].kind = "Binary"
    /\ functions[2].expressions[1].ref_count = 7
    /\ functions[2].expressions[2].ref_count = 0
    /\ functions[2].expressions[MaxExpressions].ref_count = 6

\* the expressions of the current function that process_expression has written
Written ==
    CASE pc = "expressions" -> 1..(handle - 1)
      [] pc = "block" -> 1..Len(fun.expressions)
      [] OTHER -> {}

\* C8: once process_expression has written the info of an expression, its
\* assignable_global is g if the expression is GlobalVariable(g), that of its
\* base if it is an Access or an AccessIndex, and None otherwise: it is the
\* global at the root of the expression's chain of bases, whatever the index
\* of an Access reaches. The info keeps it through the block pass.
C8_AssignableGlobal ==
    /\ \A e \in Written :
           LET x == fun.expressions[e]
           IN  /\ info.expressions[e].assignable_global =
                      CASE x.kind = "GlobalVariable" -> x.global
                        [] x.kind \in {"Access", "AccessIndex"} ->
                              info.expressions[x.base].assignable_global
                        [] OTHER -> None
               /\ info.expressions[e].assignable_global = Root(fun.expressions, e)
    /\ \A k \in 1..Processed :
           \A e \in 1..Len(FunctionAt(k).expressions) :
               InfoAt(k).expressions[e].assignable_global =
                   Root(FunctionAt(k).expressions, e)

\* after the expression pass: an Access whose index reaches a global and whose
\* base reaches none
C8_Witness ==
    /\ pc = "block"
    /\ \E e \in Written :
           /\ fun.expressions[e].kind = "Access"
           /\ info.expressions[fun.expressions[e].index].assignable_global = 2
           /\ fun.expressions[fun.expressions[e].base].kind = "Constant"
           /\ info.expressions[e].assignable_global = None

\* C9: from its allocation on, the FunctionInfo under construction has one
\* ExpressionInfo for each expression of the function and one GlobalUse for
\* each global variable of the module, and so has every FunctionInfo pushed;
\* expression_count and global_variable_count report these lengths.
C9_BufferSizes ==
    /\ (pc \in {"expressions", "block"} \/ (pc = "done" /\ result # Ok)) =>
           /\ Len(info.expressions) = Len(fun.expressions)
           /\ Len(info.global_uses) = Len(module.global_variables)
    /\ \A k \in 1..Processed :
           /\ expression_count(InfoAt(k)) = Len(FunctionAt(k).expressions)
           /\ global_variable_count(InfoAt(k)) = Len(module.global_variables)

\* a function of four expressions pushed after process_call merged the uses of
\* a function of three, in a module of three global variables
C9_Witness ==
    /\ pc = "done"
    /\ result = Ok
    /\ Processed = 3
    /\ Callees(module.functions[2]) = {1}
    /\ functions[1].global_uses[3] = {WRITE}
    /\ expression_count(functions[1]) = 3
    /\ expression_count(functions[2]) = 4
    /\ WRITE \in functions[2].global_uses[3]
    /\ global_variable_count(entry_points[1]) = 3

(***************************************************************************)
(* Modules of one global variable, of every description                    *)
(***************************************************************************)
\* the expression arena of a module of the family holds the GlobalVariable
\* expression after at most MaxPadding constants
MaxPadding == 1

\* crate::BuiltIn, crate::StorageClass, Option<crate::Interpolation> (Flat is
\* the one the analysis tells apart; Perspective stands for each other one) and
\* the sets of crate::StorageAccess flags
BuiltIns ==
    {"BaseInstance", "BaseVertex", "ClipDistance", "InstanceIndex", "PointSize",
     "Position", "VertexIndex", "FragCoord", "FragDepth", "FrontFacing",
     "SampleIndex", "SampleMaskIn", "SampleMaskOut", "GlobalInvocationId",
     "LocalInvocationId", "LocalInvocationIndex", "WorkGroupId", "WorkGroupSize"}
StorageClasses ==
    {"Function", "Input", "Output", "Private", "WorkGroup", "Uniform", "Storage",
     "Handle", "PushConstant"}
Interpolations == {"None", "Flat", "Perspective"}
StorageAccesses == SUBSET {"LOAD", "STORE"}
Bindings ==
    {[tag |-> "None"], [tag |-> "Location"], [tag |-> "Resource"]}
    \cup {[tag |-> "BuiltIn", built_in |-> b] : b \in BuiltIns}

GlobalVariables ==
    [binding : Bindings, class : StorageClasses, interpolation : Interpolations,
     storage_access : StorageAccesses]

\* `padding` constants, the GlobalVariable expression, and a Return of it
GlobalModules(padding) ==
    [n \in 1..(padding + 1) |->
        {[global_variables |-> <<g>>,
          functions |-> <<Function([i \in 1..n |->
                                       IF i < n THEN [kind |-> "Constant"]
                                       ELSE [kind |-> "GlobalVariable", global |-> 1]],
                                   <<Return(n)>>)>>,
          entry_points |-> <<>>] : g \in GlobalVariables}]

InitGlobal == InitOf(GlobalModules(MaxPadding))
SpecGlobal == InitGlobal /\ [][Next]_vars

\* C10: the uniformity written for a GlobalVariable(g) expression h is the
\* default (uniform) if g is bound to the built-in FrontFacing, WorkGroupId or
\* WorkGroupSize, or is bound to no built-in and has class Uniform or
\* PushConstant, or class Input with Flat interpolation, or class Handle or
\* Storage without STORE access; otherwise it is non_uniform_result(h).  So a
\* variable bound to any other built-in is non-uniform whatever its class,
\* interpolation and storage access.
C10_GlobalVariableUniformity ==
    \A e \in Written :
        (fun.expressions[e].kind = "GlobalVariable") =>
            LET g == module.global_variables[fun.expressions[e].global]
                uniform ==
                    \/ /\ g.binding.tag = "BuiltIn"
                       /\ g.binding.built_in \in {"FrontFacing", "WorkGroupId",
                                                  "WorkGroupSize"}
                    \/ /\ g.binding.tag # "BuiltIn"
                       /\ \/ g.class \in {"Uniform", "PushConstant"}
                          \/ g.class = "Input" /\ g.interpolation = "Flat"
                          \/ g.class \in {"Handle", "Storage"}
                             /\ "STORE" \notin g.storage_access
            IN  /\ info.expressions[e].uniformity =
                       IF uniform THEN Uniformity_default ELSE non_uniform_result(e)
                /\ (g.binding.tag = "BuiltIn"
                      /\ g.binding.built_in \notin {"FrontFacing", "WorkGroupId",
                                                    "WorkGroupSize"})
                   => info.expressions[e].uniformity = non_uniform_result(e)

\* a read-only uniform buffer bound to the built-in Position is non-uniform, at
\* the second handle of the arena
C10_Witness ==
    /\ pc = "block"
    /\ Len(fun.expressions) = 2
    /\ fun.expressions[2].kind = "GlobalVariable"
    /\ module.global_variables[1].binding = [tag |-> "BuiltIn", built_in |-> "Position"]
    /\ module.global_variables[1].class = "Uniform"
    /\ module.global_variables[1].storage_access = {"LOAD"}
    /\ info.expressions[2].uniformity = non_uniform_result(2)

(***************************************************************************)
(* ImageSample operands                                                    *)
(***************************************************************************)
\* the expression that process_expression is about to process, or has failed on
AtImageSample ==
    /\ handle <= Len(fun.expressions)
    /\ fun.expressions[handle].kind = "ImageSample"
image_operand == fun.expressions[fun.expressions[handle].image]
sampler_operand == fun.expressions[fun.expressions[handle].sampler]

\* C11: process_expression on an ImageSample returns
\* Err(ExpectedGlobalVariable(x)) iff its image operand or its sampler operand
\* is not a GlobalVariable expression, x being the image operand's expression
\* if the image is the offender and the sampler operand's otherwise; then the
\* FunctionInfo is left as it was (no key, no ref_count, no global_uses).
\* Otherwise exactly the key (image's global, sampler's global) joins the
\* sampling_set and the expression pass goes on.
C11_ImageSampleOperands ==
    [][(pc = "expressions" /\ AtImageSample) =>
         IF image_operand.kind # "GlobalVariable" \/ sampler_operand.kind # "GlobalVariable"
         THEN /\ pc' = "done"
              /\ result' = ExpectedGlobalVariable(
                     IF image_operand.kind # "GlobalVariable" THEN image_operand
                     ELSE sampler_operand)
              /\ info' = info
         ELSE /\ pc' = "expressions"
              /\ result' = Running
              /\ info'.sampling_set =
                     info.sampling_set \cup {[image |-> image_operand.global,
                                              sampler |-> sampler_operand.global]}
      ]_vars

\* an ImageSample rejected for its image, an AccessIndex of a global variable,
\* although its sampler is a GlobalVariable: the global's expression keeps the
\* one reference of the AccessIndex, and no key and no use is recorded
C11_Witness ==
    /\ pc = "done"
    /\ result.tag = "ExpectedGlobalVariable"
    /\ AtImageSample
    /\ image_operand.kind = "AccessIndex"
    /\ sampler_operand.kind = "GlobalVariable"
    /\ result = ExpectedGlobalVariable(image_operand)
    /\ info.sampling_set = {}
    /\ info.expressions[fun.expressions[handle].sampler].ref_count = 1
    /\ \A g \in 1..Len(info.global_uses) : info.global_uses[g] = {}

(***************************************************************************)
(* Modules of several functions and entry points, some of which fail       *)
(***************************************************************************)
\* a module holds at most MaxFunctions functions and MaxEntryPoints entry points
MaxFunctions == 2
MaxEntryPoints == 2

\* an ImageSample of expression 1, which is not a global variable, after a
\* derivative
SampleOf(first) ==
    << first,
       [kind |-> "Derivative", expr |-> 1],
       [kind |-> "ImageSample", image |-> 1, sampler |-> 1, coordinate |-> 1,
        array_index |-> None, level |-> [tag |-> "Zero"], depth_ref |-> None] >>

\* a function that requires uniformity and is accepted, one that may kill, two
\* that fail in the expression pass (the second has a body that would fail
\* too), one that fails in the block pass, and functions that require
\* uniformity after a call of function j
DriverFunctions(callees) ==
    { Function(DerivativeExpressions, <<Store(1, 2)>>),
      Function(<<>>, <<Kill>>),
      Function(SampleOf([kind |-> "Constant"]), <<>>),
      Function(SampleOf([kind |-> "LocalVariable"]), <<Return(None), Store(1, 2)>>),
      Function(DerivativeExpressions, <<Return(3), Store(1, 2)>>) }
    \cup {Function(DerivativeExpressions, <<Call(j, <<>>, None), Store(1, 2)>>) :
             j \in callees}

\* every module of at most nf such functions and at most ne such entry points;
\* a call may name any of the handles 1..nf
DriverModules(nf, ne) ==
    LET F == DriverFunctions(1..nf)
    IN  << {[global_variables |-> CallGlobals, functions |-> fs, entry_points |-> es] :
               fs \in SeqsUpTo(F, nf), es \in SeqsUpTo(F, ne)} >>

InitDriver == InitOf(DriverModules(MaxFunctions, MaxEntryPoints))
SpecDriver == InitDriver /\ [][Next]_vars

(***************************************************************************)
(* Errors                                                                  *)
(***************************************************************************)
Total == Len(module.functions) + Len(module.entry_points)

\* what process_function returns for the k-th function in processing order,
\* given the FunctionInfos that Analysis::new holds when it calls it
Outcome(k) ==
    process_function(IF IsEntryPoint(k) THEN functions ELSE SubSeq(functions, 1, k - 1),
                     FunctionAt(k), module.global_variables)

\* a function with an ImageSample whose image or sampler is not a
\* GlobalVariable expression
HasBadSample(function) ==
    \E h \in 1..Len(function.expressions) :
        /\ function.expressions[h].kind = "ImageSample"
        /\ \/ function.expressions[function.expressions[h].image].kind # "GlobalVariable"
           \/ function.expressions[function.expressions[h].sampler].kind # "GlobalVariable"

\* C12: when Analysis::new has returned, process_function succeeded on every
\* function whose info it holds; it returned Ok iff it holds the info of every
\* function and entry point of the module; otherwise what it returned is what
\* process_function returns for the first function without an info (ordinary
\* functions in order, then entry points), and no function after that one has
\* an info; an error of the expression pass of that function wins over any
\* error its body would give; and without a panic the value is one of the two
\* errors.
C12_FirstErrorWins ==
    (pc = "done") =>
        /\ \A k \in 1..Processed : Outcome(k).res = Ok
        /\ (result = Ok) <=> (Processed = Total)
        /\ (result # Ok) =>
              /\ Current <= Total
              /\ Outcome(Current).res = result
              /\ HasBadSample(fun) => result.tag = "ExpectedGlobalVariable"
              /\ (result # Panic) =>
                     result.tag \in {"ExpectedGlobalVariable", "NonUniformControlFlow"}

\* the second of four functions fails in its expression pass, its body would
\* fail too, and so would the first entry point, with another error: the
\* error returned is the second function's, after one info only
C12_Witness ==
    /\ pc = "done"
    /\ Len(module.functions) = 2
    /\ Len(module.entry_points) = 2
    /\ Processed = 1
    /\ functions[1].uniformity.require_uniform # None
    /\ HasBadSample(fun)
    /\ process_block(info, fun.body, functions, NoDisruptor).res.tag =
           "NonUniformControlFlow"
    /\ result = ExpectedGlobalVariable([kind |-> "LocalVariable"])
    /\ process_function(functions, module.entry_points[1],
                        module.global_variables).res = ExpectedGlobalVariable([kind |-> "Constant"])

(***************************************************************************)
(* Processing order                                                        *)
(***************************************************************************)
\* C13: Analysis::new pushes the infos of the ordinary functions in declaration
\* order and only then those of the entry points; while the k-th function is
\* analysed the infos at hand are those of the functions before it (of all
\* ordinary functions for an entry point); the info at position k is what
\* process_function returns for function k, uniformity and may_kill included,
\* and a pushed info never changes.  So in a module whose ordinary functions
\* call smaller handles only, and whose entry points call existing functions,
\* no call-site lookup is out of bounds, and on success there is one info for
\* each function and one for each entry point, in order.
C13_ProcessingOrder ==
    /\ [](/\ Len(functions) <= Len(module.functions)
          /\ Len(entry_points) <= Len(module.entry_points)
          /\ (entry_points # <<>>) => Len(functions) = Len(module.functions)
          /\ (pc \in {"expressions", "block"}) =>
                 Len(functions) = IF IsEntryPoint(Current) THEN Len(module.functions)
                                  ELSE Current - 1
          /\ \A k \in 1..Processed : InfoAt(k) = Outcome(k).info
          /\ (\A k \in 1..Total : \A c \in Callees(FunctionAt(k)) :
                    /\ c <= Len(module.functions)
                    /\ ~IsEntryPoint(k) => c < k)
                => result # Panic
          /\ (pc = "done" /\ result = Ok) =>
                 /\ Len(functions) = Len(module.functions)
                 /\ Len(entry_points) = Len(module.entry_points))
    /\ [][/\ SubSeq(functions', 1, Len(functions)) = functions
          /\ SubSeq(entry_points', 1, Len(entry_points)) = entry_points
          /\ Len(functions') + Len(entry_points') <= Processed + 1]_vars

\* an accepted module: the second function calls the first, the first entry
\* point may kill, and the second entry point calls the second function
C13_Witness ==
    /\ pc = "done"
    /\ result = Ok
    /\ Len(functions) = 2
    /\ Len(entry_points) = 2
    /\ Callees(module.functions[2]) = {1}
    /\ Callees(module.entry_points[2]) = {2}
    /\ functions[2].uniformity = functions[1].uniformity
    /\ functions[1].uniformity.require_uniform # None
    /\ entry_points[1].may_kill
    /\ entry_points[2] = Outcome(4).info

(***************************************************************************)
(* Global uses, step by step                                               *)
(***************************************************************************)
\* C14: every step of the expression pass and of the block pass that succeeds
\* adds to global_uses[g] exactly the uses made by the operand positions of the
\* expression (of the statement and the statements nested in it) whose operand
\* is GlobalVariable(g) or an Access/AccessIndex chain rooted at it: nothing for
\* the base of an Access or AccessIndex, WRITE for the pointer of a Store and
\* the image of an ImageStore, QUERY for the operand of an ArrayLength and the
\* image of an ImageQuery, READ for every other operand; a call adds the
\* callee's uses.  No step on a function clears a flag.
C14_UseByConsumer ==
    [][LET UsesOf(ops, g) ==
               {ops[i].use : i \in {j \in 1..Len(ops) :
                                       /\ ops[j].use # BASE
                                       /\ Root(fun.expressions, ops[j].handle) = g}}
           Inherited(targets, g) == UNION {functions[c].global_uses[g] : c \in targets}
           G == 1..Len(module.global_variables)
       IN  /\ (pc = "expressions" /\ handle <= Len(fun.expressions) /\ pc' = "expressions")
                => \A g \in G :
                       info'.global_uses[g] =
                           info.global_uses[g]
                           \cup UsesOf(ExpressionOperands(fun.expressions[handle]), g)
                           \cup Inherited(CallExpressionTargets(
                                     Function(<<fun.expressions[handle]>>, <<>>)), g)
           /\ (pc = "block" /\ cursor <= Len(fun.body) /\ pc' = "block")
                => \A g \in G :
                       info'.global_uses[g] =
                           info.global_uses[g]
                           \cup UsesOf(FunctionOperands(Function(<<>>, <<statement>>)), g)
                           \cup Inherited(CallStatementTargets(
                                     Function(<<>>, <<statement>>)), g)
           /\ (pc \in {"expressions", "block"})
                => \A g \in G : info.global_uses[g] \subseteq info'.global_uses[g]
      ]_vars

\* a global read by a Load, then written by a Store through an AccessIndex
C14_Witness ==
    /\ pc = "block"
    /\ cursor = 2
    /\ Len(fun.expressions) = 3
    /\ fun.expressions[1].kind = "GlobalVariable"
    /\ fun.expressions[2] = [kind |-> "Load", pointer |-> 1]
    /\ fun.expressions[3] = [kind |-> "AccessIndex", base |-> 1]
    /\ fun.body[1] = Store(3, 1)
    /\ info.global_uses[fun.expressions[1].global] = {READ, WRITE}

(***************************************************************************)
(* The first scenario of the test `uniform_control_flow`                   *)
(***************************************************************************)
\* process_block has returned from the body
\* [If{condition: GF, accept: [], reject: [Store{pointer: C, value: D}]}]
\* of a function over the test's expressions and global variables
AfterUniformIf ==
    /\ pc = "block"
    /\ cursor = 2
    /\ module.global_variables = TestGlobals
    /\ fun.expressions = TestExpressions
    /\ fun.body = <<If(uniform_global_expr, <<>>,
                       <<Store(constant_expr, derivative_expr)>>)>>

\* C15 as stated: after the expression pass and process_block on the body with
\* no disruptor, ref_count(C) = 2, ref_count(GF) = 1, ref_count(GV) = 1,
\* global_uses[gFlat] = READ|QUERY and global_uses[gVid] is empty.
C15_S1PostState ==
    AfterUniformIf =>
        /\ info.expressions[constant_expr].ref_count = 2
        /\ info.expressions[uniform_global_expr].ref_count = 1
        /\ info.expressions[non_uniform_global_expr].ref_count = 1
        /\ info.global_uses[2] = {READ, QUERY}
        /\ info.global_uses[1] = {}

\* C15 as amended: the same, with ref_count(GF) = 2, for GF is the operand of
\* the ArrayLength and the condition of the If.
C15_S1PostStateAmended ==
    AfterUniformIf =>
        /\ info.expressions[constant_expr].ref_count = 2
        /\ info.expressions[uniform_global_expr].ref_count = 2
        /\ info.expressions[non_uniform_global_expr].ref_count = 1
        /\ info.global_uses[2] = {READ, QUERY}
        /\ info.global_uses[1] = {}

\* the scenario was accepted, with the derivative as the block's witness
C15_Witness ==
    /\ AfterUniformIf
    /\ result = Running
    /\ locals.block_uniformity = require_uniform(derivative_expr)
    /\ locals.block_exit = {}
    /\ locals.disruptor = NoDisruptor

C17_SinglePassLoop ==
    [][(AtStatement /\ statement.kind = "Loop") =>
         LET d == locals.disruptor
             body == process_block(info, statement.body, functions, d)
             back == DisruptorOr(d, from_exit(body.exit))
             continuing == process_block(info, statement.continuing, functions, back)
             again == process_block(info, statement.body, functions, back)
         IN  /\ (body.res # Ok) => (pc' = "done" /\ result' = body.res)
             /\ (body.res = Ok /\ continuing.res # Ok) =>
                    (pc' = "done" /\ result' = continuing.res)
             /\ (pc' = "block") =>
                    /\ body.res = Ok
                    /\ continuing.res = Ok
                    /\ locals'.block_exit =
                           locals.block_exit \cup body.exit \cup continuing.exit
                    /\ again.res = Ok
      ]_vars

(***************************************************************************)
(* ImageStore                                                              *)
(***************************************************************************)
\* one function whose body is one ImageStore, for every choice of its operands
\* among a non-uniform global variable, a local variable, a constant and a
\* derivative
ImageStoreModules ==
    LET arena == << [kind |-> "GlobalVariable", global |-> 1],
                    [kind |-> "LocalVariable"],
                    [kind |-> "Constant"],
                    [kind |-> "Derivative", expr |-> 3] >>
        H == 1..Len(arena)
    IN  << {[global_variables |-> TestGlobals,
             functions |-> <<Function(arena,
                                      <<[kind |-> "ImageStore", image |-> i,
                                         coordinate |-> c, array_index |-> a,
                                         value |-> v]>>)>>,
             entry_points |-> <<>>] : i \in H, c \in H, a \in H \cup {None}, v \in H} >>

InitImageStore == InitOf(ImageStoreModules)
SpecImageStore == InitImageStore /\ [][Next]_vars

\* C18: the uniformity of an ImageStore is the left-biased join of the
\* uniformities of its operands in the order image, coordinate, array_index
\* (when present), value, so that the image's witness wins over the
\* array_index's; the image operand marks WRITE on the global it reaches, and
\* the exit flags are empty.
C18_ImageStoreOrder ==
    [][(AtStatement /\ statement.kind = "ImageStore") =>
         LET S == statement
             U(h) == IF h = None THEN Uniformity_default
                     ELSE info.expressions[h].uniformity
         IN  /\ pc' = "block"
             /\ locals'.block_uniformity =
                    BitOr(BitOr(BitOr(U(S.image), U(S.coordinate)), U(S.array_index)),
                          U(S.value))
             /\ locals'.block_exit = {}
             /\ Root(fun.expressions, S.image) # None =>
                    WRITE \in info'.global_uses[Root(fun.expressions, S.image)]
      ]_vars

(***************************************************************************)
(* The join of uniformities: three functions of every uniformity, and two  *)
(* functions that call them                                                *)
(***************************************************************************)
\* a function's uniformity names one of MaxWitnesses expressions, or none, in
\* each field
MaxWitnesses == 2

\* a constant, n local variables and n derivatives of the constant
WitnessExpressions(n) ==
    << [kind |-> "Constant"] >>
    \o [i \in 1..n |-> [kind |-> "LocalVariable"]]
    \o [i \in 1..n |-> [kind |-> "Derivative", expr |-> 1]]

\* three functions that each store one of the derivatives (or the constant)
\* through one of the local variables (or the constant), a function that calls
\* the three in a row and one that calls the last two in a nested block
JoinModules(n) ==
    LET F == {Function(WitnessExpressions(n), <<Store(p, v)>>) :
                 p \in {1} \cup 2..(n + 1), v \in {1} \cup (n + 2)..(2 * n + 1)}
    IN  << {[global_variables |-> TestGlobals,
             functions |-> << f, g, h,
                              Function(<<>>, <<Call(1, <<>>, None), Call(2, <<>>, None),
                                               Call(3, <<>>, None)>>),
                              Function(<<>>, <<Call(1, <<>>, None),
                                               Block(<<Call(2, <<>>, None),
                                                       Call(3, <<>>, None)>>)>>) >>,
             entry_points |-> <<>>] : f \in F, g \in F, h \in F} >>

InitJoin == InitOf(JoinModules(MaxWitnesses))
SpecJoin == InitJoin /\ [][Next]_vars

\* C19: for the uniformities a, b, c of three functions, each field of a join
\* is the left operand's when present and else the right's; the join is
\* idempotent and associative (a function that calls the three in a row and
\* one that calls the last two in a nested block get the same uniformity), the
\* default is its left and right identity, a field is present in the join of x
\* and y iff it is in the join of y and x, and the two joins differ when x and
\* y name different witnesses in a field.
C19_JoinAlgebra ==
    (pc = "done" /\ result = Ok) =>
        LET a == functions[1].uniformity
            b == functions[2].uniformity
            c == functions[3].uniformity
            V == {a, b, c}
        IN  /\ \A x \in V, y \in V :
                   /\ BitOr(x, y).non_uniform_result =
                          IF x.non_uniform_result # None THEN x.non_uniform_result
                          ELSE y.non_uniform_result
                   /\ BitOr(x, y).require_uniform =
                          IF x.require_uniform # None THEN x.require_uniform
                          ELSE y.require_uniform
                   /\ (BitOr(x, y).non_uniform_result # None) <=>
                          (BitOr(y, x).non_uniform_result # None)
                   /\ (BitOr(x, y).require_uniform # None) <=>
                          (BitOr(y, x).require_uniform # None)
                   /\ (\/ /\ x.non_uniform_result # None
                           /\ y.non_uniform_result # None
                           /\ x.non_uniform_result # y.non_uniform_result
                        \/ /\ x.require_uniform # None
                           /\ y.require_uniform # None
                           /\ x.require_uniform # y.require_uniform)
                      => BitOr(x, y) # BitOr(y, x)
            /\ \A x \in V :
                   /\ BitOr(x, x) = x
                   /\ BitOr(Uniformity_default, x) = x
                   /\ BitOr(x, Uniformity_default) = x
            /\ BitOr(BitOr(a, b), c) = BitOr(a, BitOr(b, c))
            /\ functions[4].uniformity = BitOr(BitOr(a, b), c)
            /\ functions[5].uniformity = BitOr(a, BitOr(b, c))

\* three functions with three different pairs of witnesses, of which the
\* callers keep the first function's
C19_Witness ==
    /\ pc = "done"
    /\ result = Ok
    /\ functions[1].uniformity = [non_uniform_result |-> 3, require_uniform |-> 4]
    /\ functions[2].uniformity = [non_uniform_result |-> 2, require_uniform |-> 5]
    /\ functions[3].uniformity = [non_uniform_result |-> None, require_uniform |-> 4]
    /\ functions[4].uniformity = functions[1].uniformity
    /\ functions[5].uniformity = functions[1].uniformity

(***************************************************************************)
(* Call statements                                                         *)
(***************************************************************************)
\* C20: a Call statement of the function body adds MAY_KILL to the exit flags
\* iff the callee's may_kill is true, and never MAY_RETURN; after it the
\* disruptor is the one before it, or else Kill if the callee may kill, or
\* else none.  So the statement after a first Call of a function that cannot
\* kill is under no disruptor, and is accepted if it nests nothing; after a
\* first Call of a function that may kill it is under Kill, and is rejected
\* with NonUniformControlFlow(w, Kill) if it requires uniformity, w being its
\* witness.
C20_CallExportsKill ==
    [][/\ (AtStatement /\ statement.kind = "Call" /\ pc' = "block") =>
             /\ locals'.block_exit =
                    locals.block_exit
                    \cup (IF functions[statement.function].may_kill THEN {MAY_KILL}
                          ELSE {})
             /\ locals'.disruptor =
                    IF locals.disruptor # NoDisruptor THEN locals.disruptor
                    ELSE IF functions[statement.function].may_kill THEN DisruptorKill
                    ELSE NoDisruptor
       /\ (AtStatement /\ cursor = 2 /\ fun.body[1].kind = "Call") =>
             IF functions[fun.body[1].function].may_kill
             THEN /\ locals.disruptor = DisruptorKill
                  /\ OwnRequire(info.expressions, functions, statement) # None =>
                         /\ pc' = "done"
                         /\ result' = NonUniformControlFlow(
                                OwnRequire(info.expressions, functions, statement),
                                DisruptorKill)
             ELSE /\ locals.disruptor = NoDisruptor
                  /\ Children(statement) = <<>> => pc' = "block"
      ]_vars

\* a store of a derivative rejected after a Call of a function that may kill
C20_Witness ==
    /\ pc = "done"
    /\ result = NonUniformControlFlow(2, DisruptorKill)
    /\ cursor = 2
    /\ fun.body[1].kind = "Call"
    /\ fun.body[2] = Store(1, 2)
    /\ functions[fun.body[1].function].may_kill

=============================================================================
